---------------------------- MODULE Spec2Model ----------------------------
(***************************************************************************)
(* Model of src/c++/apps/echo/dmtr_http_server_threaded.cc: the            *)
(* connection ("TCP") workers, the compute ("HTTP") workers, the           *)
(* in-memory queues between them, and the supervisor (work_setup, main,    *)
(* sig_handler).  main() calls work_setup with split = false; the split    *)
(* mode of tcp_work and http_work is modelled as work_setup(..., true)     *)
(* runs it.                                                                *)
(*                                                                         *)
(* Spec starts where work_setup has returned and no worker has run yet;    *)
(* SpecSupervisor starts at the call of work_setup and has the signal      *)
(* handler; SpecSubmit is Spec on a datapath that may refuse a             *)
(* submission; SpecFilters is Spec with tcp_work given each value of its   *)
(* filter argument, not only the one work_setup assigns.                   *)
(*                                                                         *)
(* A worker thread is sequential; the other threads get to see what it     *)
(* has done when it blocks or releases a lock.  One action is therefore    *)
(* the stretch of a worker's code between two such points: from a          *)
(* completion handed out by dmtr_wait_any or dmtr_wait up to the next      *)
(* dmtr_wait_any or dmtr_wait, and in the setup up to the release of       *)
(* lqds_mutex.  The order of the calls inside a stretch (push, free,       *)
(* pop) is kept by applying the buffer operators below in the order of     *)
(* the code.                                                               *)
(*                                                                         *)
(* The datapath (the dmtr calls), the request parser and the functions     *)
(* the builders call to format a response are not part of the file; they   *)
(* are modelled from their contract.                                       *)
(***************************************************************************)
EXTENDS Integers, Sequences, FiniteSets

(* ------------------------------ bounds -------------------------------- *)
MaxTcp == 2

MaxHttp == 2

\* environment events in one run: connections accepted, requests received
\* and error completions, taken together
MaxEvents == 4

(* --------------------------- configuration ---------------------------- *)
(* --------------------------- configuration ---------------------------- *)
\* enum tcp_filters { RR, HTTP_REQ_TYPE, ONE_TO_ONE }
tcp_filters == {"RR", "HTTP_REQ_TYPE", "ONE_TO_ONE"}

\* Rejected, never rejecting.
RejectedNever(filter, n_tcp_workers, n_http_workers) == FALSE

\* work_setup's startup validation: exit(1) when the filter is ONE_TO_ONE
\* and n_tcp_workers < n_http_workers (checked in joined mode too).
Rejected(filter, n_tcp_workers, n_http_workers) ==
    filter = "ONE_TO_ONE" /\ n_tcp_workers < n_http_workers

\* work_setup checks the configuration in the loop that creates the TCP
\* workers: with no TCP worker the check is never made.
LetThrough(filter, n_tcp_workers, n_http_workers) ==
    n_tcp_workers = 0 \/ ~Rejected(filter, n_tcp_workers, n_http_workers)

\* The calls of work_setup that return with the workers created.  The
\* filter is the one work_setup assigns, ONE_TO_ONE; the numbers of
\* workers may be 0; split is work_setup's third parameter (main passes
\* false, and the split-mode code runs when it is called with true).
Configs ==
    { c \in [split : BOOLEAN, filter : {"ONE_TO_ONE"},
             nTcp : 0..MaxTcp, nHttp : 0..MaxHttp] :
        LetThrough(c.filter, c.nTcp, c.nHttp) }

\* tcp_work as a function of its arguments: every value of
\* tcp_worker_args.filter, the two that work_setup keeps commented out
\* included, for which the routing code of tcp_work is written all the
\* same.
FilterConfigs ==
    { c \in [split : BOOLEAN, filter : tcp_filters,
             nTcp : 0..MaxTcp, nHttp : 0..MaxHttp] :
        LetThrough(c.filter, c.nTcp, c.nHttp) }

(* ---------------------------- descriptors ----------------------------- *)
\* Queue descriptors are opaque integers handed out by the datapath; the
\* model gives every descriptor a distinct number and never reuses one.
Lqd(w) == w + 1

In_qfd(k) == MaxTcp + 2 * k + 1

Out_qfd(k) == MaxTcp + 2 * k + 2

ClientQd(n) == MaxTcp + 2 * MaxHttp + n

ClientQds == { ClientQd(n) : n \in 1..MaxEvents }

\* class Worker { in_qfd; out_qfd; me }
Worker(k) == [in_qfd |-> In_qfd(k), out_qfd |-> Out_qfd(k)]

\* Worker() as work_setup creates it before dmtr_queue: in_qfd = out_qfd = -1
NoWorker == [in_qfd |-> -1, out_qfd |-> -1]

(* ------------------------------ tokens -------------------------------- *)
AcceptTok(qd) == [op |-> "accept", qd |-> qd]

PopTok(qd) == [op |-> "pop", qd |-> qd]

\* A token after the wait that returned its completion: the value is still
\* in the variable that held it, the operation it named is over.
Consumed(tok) == [op |-> "done", qd |-> tok.qd]

\* dmtr_qtoken_t 0: the value a failing submission may store in *token
\* before it returns; it names no operation.
ZeroTok == [op |-> "unknown", qd |-> 0]

\* std::vector::erase(begin() + idx), idx counted from 1 here
Erase(s, i) == SubSeq(s, 1, i - 1) \o SubSeq(s, i + 1, Len(s))

\* std::find: the first position of x in s, 0 when absent (end())
RECURSIVE FindFrom(_, _, _)
FindFrom(s, x, i) ==
    IF i > Len(s) THEN 0
    ELSE IF s[i] = x THEN i
    ELSE FindFrom(s, x, i + 1)

Find(s, x) == FindFrom(s, x, 1)

Range(s) == { s[i] : i \in 1..Len(s) }

(* ------------------- parser and builders (external) ------------------- *)
\* The requests a client can send, by what the parser makes of the bytes.
Kinds == {"file", "regex", "malformed", "incomplete"}

\* parse_http: complete | incomplete | error
parse_http(kind) ==
    CASE kind = "malformed" -> "REQ_ERROR"
      [] kind = "incomplete" -> "REQ_INCOMPLETE"
      [] OTHER -> "REQ_COMPLETE"

REGEX_REQ == 0

FILE_REQ == 1

\* get_request_type: the integer tag of the URL
get_request_type(kind) == IF kind = "regex" THEN REGEX_REQ ELSE FILE_REQ

\* generate_response: formats header and body into a buffer it allocates
\* and stores in *response.  It always emits one: what a builder finds
\* wrong with the URL goes into the status code of the header.
generate_response(body) == body

\* regex_work / file_work: URL in, owned response buffer out.  Both end in
\* generate_response.  The result is the content of the response; "NULL",
\* the value the callers start from and test for, is no response at all.
regex_work(kind) == generate_response("regex")

file_work(kind) == generate_response("file")

BuildResponse(kind) ==
    IF get_request_type(kind) = REGEX_REQ THEN regex_work(kind)
    ELSE file_work(kind)

(* ------------------------------ buffers ------------------------------- *)
\* The life of one heap buffer that is sent: allocated, pushed (a push is
\* in flight until it has been waited for), freed.  queued is the push to
\* an in-memory queue in flight, inflight the push to a client; early
\* records a free made while the push to the client was still in flight.
NoBuf == [alloc |-> FALSE, queued |-> FALSE, inflight |-> FALSE,
          pushes |-> 0, frees |-> 0, early |-> FALSE]

Malloc == [NoBuf EXCEPT !.alloc = TRUE]

\* dmtr_push to a client descriptor, and the dmtr_wait on its token
DmtrPush(b) == [b EXCEPT !.inflight = TRUE, !.pushes = @ + 1]

DmtrWait(b) == [b EXCEPT !.inflight = FALSE]

\* dmtr_push to an in-memory queue, and the dmtr_wait on its token
QueuePush(b) == [b EXCEPT !.queued = TRUE, !.pushes = @ + 1]

QueueWait(b) == [b EXCEPT !.queued = FALSE]

Free(b) == [b EXCEPT !.frees = @ + 1, !.early = @ \/ b.inflight]

(* ------------------------------- state -------------------------------- *)
VARIABLES
    cfg,            \* the configuration work_setup was called with
    sup,            \* the main thread: where it is, its loop index, and
                    \* the exit status of the process (-1 while it runs)
    started,        \* the HTTP workers whose thread has been created
    registry,       \* lqds, lqds_mutex and a record of the accesses to lqds
    http_workers,   \* std::vector<Worker *> http_workers
    pc,             \* per TCP worker, where its thread is: "unborn" |
                    \* "setup" | "registered" | "loop" (at wait_any) |
                    \* "forward_wait" | "error_wait" | "joined_wait" |
                    \* "reply_wait" (in the dmtr_wait on a push)
    wait_out,       \* per TCP worker in a dmtr_wait on a push: the request
                    \* of the iteration and its worker_idx
    http_pc,        \* per HTTP worker: 0 at the wait on its pop, or the
                    \* request whose reply it has pushed and waits for
    crashed,        \* the process has ended (fault, abort, kill, exit)
    tokens,         \* per TCP worker: std::vector<dmtr_qtoken_t> tokens
    http_q_pending, \* per TCP worker: std::vector<int> http_q_pending
    num_rcvd,       \* per TCP worker: int num_rcvd
    closed,         \* descriptors dmtr_close was called on
    nconn,          \* connections accepted so far
    nerr,           \* error completions delivered so far
    mq,             \* per in-memory queue descriptor: the sgas in it
    reqs            \* every request popped from a client, in arrival order,
                    \* with what has happened to it and to its buffers

vars == <<cfg, sup, started, registry, http_workers, pc, wait_out, http_pc,
          crashed, tokens, http_q_pending, num_rcvd, closed, nconn, nerr,
          mq, reqs>>

supervisor == <<sup, started, registry>>

\* environment events so far
Events == nconn + Len(reqs) + nerr

TcpIds == 0..(MaxTcp - 1)

HttpIds == 0..(MaxHttp - 1)

TcpWorkers == 0..(cfg.nTcp - 1)

\* The descriptors dmtr_queue returns: in-memory queues.
MemQds == { In_qfd(k) : k \in HttpIds } \cup { Out_qfd(k) : k \in HttpIds }

\* A request as popped from client descriptor qd by TCP worker w.
NewReq(qd, kind, w) ==
    [qd |-> qd, kind |-> kind, tcp |-> w,
     parsed |-> "none",      \* parser verdict, once parsed
     reqFrees |-> 0,         \* free() calls on the request buffer
     resp |-> NoBuf,         \* the response buffer
     body |-> "none",        \* the response content
     pushedTo |-> 0,         \* client descriptor the response was pushed to
     pushedSegs |-> 0,       \* sga_numsegs of the sga pushed to the client
     rearm |-> "no",         \* pop re-submitted on the client: no | ok | early
     widx |-> -1,            \* worker_idx the routing policy computed
     fwdQ |-> 0,             \* input queue descriptor it was pushed to
     fwdEnv |-> 0,           \* segment[1].length when it was enqueued
     replies |-> 0,          \* responses pushed to the output queue
     replyQ |-> 0,           \* descriptor the response was pushed to
     replyEnv |-> 0,         \* segment[1].length of that response
     replySegs |-> 0,        \* sga_numsegs of that response
     replyBy |-> -1]         \* TCP worker that popped the response

\* wait_out of a worker that is not in an iteration
NoWait == [id |-> 0, worker_idx |-> -1]

(* ----------------------- the listening registry ----------------------- *)
\* m = [lqds, lqds_mutex, log]: std::vector<int> lqds, the thread that
\* holds lqds_mutex ("none" when it is free), and for every access made to
\* lqds who made it and whether they held the mutex.
NoRegistry == [lqds |-> << >>, lqds_mutex |-> "none", log |-> {}]

MutexLock(m, t) == [m EXCEPT !.lqds_mutex = t]

MutexUnlock(m, t) == [m EXCEPT !.lqds_mutex = "none"]

Accessed(m, t, op) ==
    [m EXCEPT !.log = @ \cup { [by |-> t, op |-> op,
                                locked |-> m.lqds_mutex = t] }]

\* lqds.push_back(lqd)
PushBack(m, t, lqd) ==
    [Accessed(m, t, "push_back") EXCEPT !.lqds = Append(@, lqd)]

\* for (int &lqd: lqds)
ReadAll(m, t) == Accessed(m, t, "read")

\* pthread_mutex_lock; lqds.push_back(lqd); pthread_mutex_unlock
Register(m, t, lqd) == MutexUnlock(PushBack(MutexLock(m, t), t, lqd), t)

\* std::vector<pthread_t *> worker_threads: the threads created so far
worker_threads ==
    { <<"tcp", w>> : w \in { v \in TcpIds : pc[v] # "unborn" } }
      \cup { <<"http", k>> : k \in started }

\* work_setup has returned, main has installed the signal handlers and
\* waits in pthread_join; no worker thread has run yet.
Joining ==
    /\ sup = [pc |-> "joining", i |-> 0, exit |-> -1]
    /\ started = IF cfg.split THEN 0..(cfg.nHttp - 1) ELSE {}
    /\ registry = NoRegistry
    /\ http_workers = IF cfg.split
                      THEN [i \in 1..cfg.nHttp |-> Worker(i - 1)]
                      ELSE << >>
    /\ pc = [w \in TcpIds |-> IF w < cfg.nTcp THEN "setup" ELSE "unborn"]
    /\ wait_out = [w \in TcpIds |-> NoWait]
    /\ http_pc = [k \in HttpIds |-> 0]
    /\ crashed = FALSE
    /\ tokens = [w \in TcpIds |-> << >>]
    /\ http_q_pending = [w \in TcpIds |-> << >>]
    /\ num_rcvd = [w \in TcpIds |-> 0]
    /\ closed = {}
    /\ nconn = 0
    /\ nerr = 0
    /\ mq = [q \in MemQds |-> << >>]
    /\ reqs = << >>

Init == cfg \in Configs /\ Joining

\* the same, with tcp_work given any of the three filters
InitFilters == cfg \in FilterConfigs /\ Joining

(* --------------------------- TCP worker ------------------------------- *)
\* tcp_work, before the loop, up to the release of lqds_mutex: socket,
\* lock, lqds.push_back, unlock.
TcpSetup(w) ==
    /\ ~crashed
    /\ w \in TcpWorkers
    /\ pc[w] = "setup"
    /\ pc' = [pc EXCEPT ![w] = "registered"]
    /\ registry' = Register(registry, w, Lqd(w))
    /\ UNCHANGED <<cfg, sup, started, http_workers, wait_out, http_pc,
                   crashed, tokens, http_q_pending, num_rcvd, closed, nconn,
                   nerr, mq, reqs>>

\* The rest of the setup: bind, listen, accept, tokens.push_back, and the
\* worker is at its first wait_any.
TcpListen(w) ==
    /\ ~crashed
    /\ w \in TcpWorkers
    /\ pc[w] = "registered"
    /\ pc' = [pc EXCEPT ![w] = "loop"]
    /\ tokens' = [tokens EXCEPT ![w] = Append(@, AcceptTok(Lqd(w)))]
    /\ UNCHANGED <<cfg, supervisor, http_workers, wait_out, http_pc, crashed,
                   http_q_pending, num_rcvd, closed, nconn, nerr, mq, reqs>>

\* The token vector after an accept completion at position idx: the token
\* is erased, a pop on the accepted descriptor and a fresh accept on the
\* listening descriptor are appended.
AcceptTokens(toks, idx, newqd, lqd) ==
    Append(Append(Erase(toks, idx), PopTok(newqd)), AcceptTok(lqd))

\* wait_any returns status 0 for a completion on the listening descriptor.
TcpAccept(w, idx) ==
    /\ ~crashed
    /\ w \in TcpWorkers
    /\ pc[w] = "loop"
    /\ idx \in 1..Len(tokens[w])
    /\ tokens[w][idx].op = "accept"
    /\ tokens[w][idx].qd = Lqd(w)
    /\ tokens[w][idx].qd \notin closed
    /\ Events < MaxEvents
    /\ nconn' = nconn + 1
    /\ tokens' = [tokens EXCEPT
                    ![w] = AcceptTokens(@, idx, ClientQd(nconn + 1), Lqd(w))]
    /\ UNCHANGED <<cfg, supervisor, http_workers, pc, wait_out, http_pc,
                   crashed, http_q_pending, num_rcvd, closed, nerr, mq, reqs>>

\* dmtr_pop(&token, qd) and dmtr_accept(&token, qd) return a status the
\* code does not look at.  What token holds after the call: the fresh
\* token when the submission succeeds; when it fails, the value token had
\* before the call, or the 0 the datapath stored before it gave up.
Submitted(ok, token, fresh) == IF ok THEN { fresh } ELSE { token, ZeroTok }

\* The accept branch when the dmtr_pop on the accepted descriptor fails:
\* tokens.push_back(token) is made all the same, then the accept.  token
\* is the accept token copied from tokens[idx] and consumed by wait_any.
\* The vectors the branch can leave.
AcceptTokensPopFails(toks, idx, newqd, lqd) ==
    LET token == Consumed(toks[idx]) IN
    UNION { { Append(Append(Erase(toks, idx), failed), fresh) :
                fresh \in Submitted(TRUE, failed, AcceptTok(lqd)) } :
            failed \in Submitted(FALSE, token, PopTok(newqd)) }

\* wait_any returns status 0 for a completion on the listening descriptor
\* and the datapath refuses the pop on the accepted descriptor.
TcpAcceptPopFails(w, idx) ==
    /\ ~crashed
    /\ w \in TcpWorkers
    /\ pc[w] = "loop"
    /\ idx \in 1..Len(tokens[w])
    /\ tokens[w][idx].op = "accept"
    /\ tokens[w][idx].qd = Lqd(w)
    /\ tokens[w][idx].qd \notin closed
    /\ Events < MaxEvents
    /\ nconn' = nconn + 1
    /\ \E toks \in AcceptTokensPopFails(tokens[w], idx, ClientQd(nconn + 1),
                                        Lqd(w)) :
         tokens' = [tokens EXCEPT ![w] = toks]
    /\ UNCHANGED <<cfg, supervisor, http_workers, pc, wait_out, http_pc,
                   crashed, http_q_pending, num_rcvd, closed, nerr, mq, reqs>>

(* ------ steps of one loop iteration, on the iteration's own view ------- *)
\* h = [rq, toks, pend]: the request the iteration works on, the worker's
\* token vector and its http_q_pending.

\* free(wait_out.qr_value.sga.sga_buf): the request buffer
FreeRequest(h) == [h EXCEPT !.rq.reqFrees = @ + 1]

\* a response buffer is allocated with this content
AllocResponse(h, body) == [h EXCEPT !.rq.resp = Malloc, !.rq.body = body]

\* dmtr_push(&token, qd, &sga) of the response to a client descriptor
PushToClient(h, qd, numsegs) ==
    [h EXCEPT !.rq.resp = DmtrPush(@), !.rq.pushedTo = qd,
              !.rq.pushedSegs = numsegs]

\* dmtr_wait(NULL, token) on that push
WaitPush(h) == [h EXCEPT !.rq.resp = DmtrWait(@)]

\* free(response)
FreeResponse(h) == [h EXCEPT !.rq.resp = Free(@)]

\* dmtr_pop(&token, client_qd); tokens.push_back(token).  rearm notes
\* whether the response had been pushed and waited for by then.
PopClient(h, qd) ==
    [h EXCEPT !.toks = Append(@, PopTok(qd)),
              !.rq.rearm = IF h.rq.pushedTo = qd /\ ~h.rq.resp.inflight
                           THEN "ok" ELSE "early"]

\* token = tokens[idx]; tokens.erase(tokens.begin() + idx)
EraseToken(h, idx) == [h EXCEPT !.toks = Erase(@, idx)]

(* -------------------- TCP worker, joined mode ------------------------- *)
\* JoinedError with the push of the bad-request response left out.
JoinedErrorSilent(h) == FreeRequest(h)

\* case REQ_ERROR, up to the dmtr_wait: free the request, push
\* BAD_REQUEST_HEADER
JoinedError(h) ==
    PushToClient(AllocResponse(FreeRequest(h), "BAD_REQUEST_HEADER"),
                 h.rq.qd, 1)

\* case REQ_ERROR, from the dmtr_wait: the push is over, continue
JoinedErrorSent(h) == WaitPush(h)

\* case REQ_INCOMPLETE: log, clean_state, continue
JoinedIncomplete(h) == h

\* REQ_COMPLETE, up to the dmtr_wait: build; without a response continue,
\* else free the request and push the response
JoinedComplete(h) ==
    LET response == BuildResponse(h.rq.kind) IN
    IF response = "NULL" THEN h
    ELSE PushToClient(FreeRequest(AllocResponse(h, response)), h.rq.qd, 1)

\* REQ_COMPLETE, from the dmtr_wait: the push is over, free the response,
\* pop the client again
JoinedSent(h) == PopClient(FreeResponse(WaitPush(h)), h.rq.qd)

\* "Do the HTTP work": parse in place and switch on the verdict
JoinedWork(h) ==
    LET pstatus == parse_http(h.rq.kind)
        p == [h EXCEPT !.rq.parsed = pstatus]
    IN  CASE pstatus = "REQ_ERROR" -> JoinedError(p)
          [] pstatus = "REQ_INCOMPLETE" -> JoinedIncomplete(p)
          [] OTHER -> JoinedComplete(p)

\* The dmtr_wait the joined iteration goes to after JoinedWork, or the
\* wait_any of the loop after a continue.
JoinedNext(h) ==
    IF ~h.rq.resp.inflight THEN "loop"
    ELSE IF h.rq.parsed = "REQ_ERROR" THEN "error_wait"
    ELSE "joined_wait"

(* --------------------- TCP worker, split mode ------------------------- *)
\* filter_http_req: get_request_type on the raw request bytes
filter_http_req(kind) == get_request_type(kind)

\* WorkerIdx counting the requests from 0: the request in hand is not yet
\* counted when the RR index is taken.
WorkerIdxZeroBased(filter, rcvd, kind, whoami, size) ==
    CASE filter = "RR" -> (rcvd - 1) % size
      [] filter = "HTTP_REQ_TYPE" -> filter_http_req(kind) % size
      [] filter = "ONE_TO_ONE" -> whoami
      [] OTHER -> (rcvd - 1) % size

\* "Load balance incoming requests among HTTP workers": num_rcvd has been
\* incremented for the request in hand when the index is taken.
WorkerIdx(filter, rcvd, kind, whoami, size) ==
    CASE filter = "RR" -> rcvd % size
      [] filter = "HTTP_REQ_TYPE" -> filter_http_req(kind) % size
      [] filter = "ONE_TO_ONE" -> whoami
      [] OTHER -> rcvd % size

\* "% http_workers.size()" with an empty vector: an integer division by
\* zero, which ends the process.
DivByZero(filter, size) == filter # "ONE_TO_ONE" /\ size = 0

\* http_workers[worker_idx].  Past the end of the vector the read is
\* undefined: it yields a pointer that is not a Worker (the process dies
\* on its use: NoWorker) or one that is a Worker.  live are the Workers
\* work_setup has created: none is ever deleted, and clear() leaves the
\* pointers where they were in the vector's storage.
WorkerAt(workers, worker_idx, live) ==
    IF worker_idx \in 0..(Len(workers) - 1)
    THEN { workers[worker_idx + 1] }
    ELSE { NoWorker } \cup { Worker(k) : k \in live }

\* Envelope with segment[1].length left as the datapath delivered it.
EnvelopeUnset(sga, qr_qd) == [sga EXCEPT !.numsegs = 2]

\* "=D": sga_numsegs = 2; sga_segs[1].sgaseg_len = wait_out.qr_qd
Envelope(sga, qr_qd) == [sga EXCEPT !.numsegs = 2, !.seg1len = qr_qd]

\* The request as the datapath hands it over: one segment, the bytes.
RequestSga(id, kind) ==
    [numsegs |-> 1, id |-> id, seg0 |-> kind, seg1len |-> 0]

\* ForwardTokens with the client popped again at once (the lines the
\* source keeps commented out after the forward).
ForwardTokensRearm(h, out_qfd) ==
    [h EXCEPT !.toks = Append(Append(@, PopTok(out_qfd)), PopTok(h.rq.qd)),
              !.pend = Append(@, out_qfd)]

\* after the wait on the push of the request: pop the worker's output
\* queue, remember it in http_q_pending; the client is not popped again
\* here
ForwardTokens(h, out_qfd) ==
    [h EXCEPT !.toks = Append(@, PopTok(out_qfd)),
              !.pend = Append(@, out_qfd)]

\* the request as it is pushed to the worker's input queue
SplitForward(h, worker, worker_idx, sga) ==
    [h EXCEPT !.rq.widx = worker_idx,
              !.rq.fwdQ = worker.in_qfd,
              !.rq.fwdEnv = sga.seg1len]

\* A pop completes with status 0 on a descriptor that is not in
\* http_q_pending: "This is a new request".  The iteration up to its
\* first dmtr_wait: in split mode the one on the push to the HTTP worker,
\* in joined mode the one on the push of the response; or up to the next
\* wait_any when it ends in a continue.
TcpRequest(w, idx, kind) ==
    /\ ~crashed
    /\ w \in TcpWorkers
    /\ pc[w] = "loop"
    /\ idx \in 1..Len(tokens[w])
    /\ tokens[w][idx].op = "pop"
    /\ Find(http_q_pending[w], tokens[w][idx].qd) = 0
    /\ tokens[w][idx].qd \in ClientQds
    /\ Events < MaxEvents
    /\ LET qr_qd == tokens[w][idx].qd
           id == Len(reqs) + 1
           rcvd == num_rcvd[w] + 1
           h0 == EraseToken([rq |-> NewReq(qr_qd, kind, w),
                             toks |-> tokens[w],
                             pend |-> http_q_pending[w]], idx)
           died == /\ crashed' = TRUE
                   /\ UNCHANGED <<tokens, num_rcvd, mq, reqs, pc, wait_out>>
       IN  IF cfg.split
           THEN IF DivByZero(cfg.filter, Len(http_workers))
                THEN died
                ELSE \E worker \in WorkerAt(http_workers,
                                     WorkerIdx(cfg.filter, rcvd, kind, w,
                                               Len(http_workers)),
                                     started) :
                  IF worker = NoWorker
                  THEN died
                  ELSE LET sga == Envelope(RequestSga(id, kind), qr_qd)
                           h == SplitForward(h0, worker,
                                    WorkerIdx(cfg.filter, rcvd, kind, w,
                                              Len(http_workers)), sga)
                       IN  /\ mq' = [mq EXCEPT
                                       ![worker.in_qfd] = Append(@, sga)]
                           /\ reqs' = Append(reqs, h.rq)
                           /\ tokens' = [tokens EXCEPT ![w] = h.toks]
                           /\ num_rcvd' = [num_rcvd EXCEPT ![w] = rcvd]
                           /\ pc' = [pc EXCEPT ![w] = "forward_wait"]
                           /\ wait_out' =
                                [wait_out EXCEPT
                                   ![w] = [id |-> id,
                                           worker_idx |->
                                             WorkerIdx(cfg.filter, rcvd,
                                                       kind, w,
                                                       Len(http_workers))]]
                           /\ UNCHANGED crashed
           ELSE LET h == JoinedWork(h0)
                IN  /\ reqs' = Append(reqs, h.rq)
                    /\ tokens' = [tokens EXCEPT ![w] = h.toks]
                    /\ num_rcvd' = [num_rcvd EXCEPT ![w] = rcvd]
                    /\ pc' = [pc EXCEPT ![w] = JoinedNext(h)]
                    /\ wait_out' =
                         [wait_out EXCEPT
                            ![w] = IF JoinedNext(h) = "loop" THEN NoWait
                                   ELSE [id |-> id, worker_idx |-> -1]]
                    /\ UNCHANGED <<crashed, mq>>
    /\ UNCHANGED <<cfg, supervisor, http_workers, http_pc, http_q_pending,
                   closed, nconn, nerr>>

\* Split mode, the dmtr_wait on the push to the HTTP worker returns:
\* http_workers[worker_idx] is read again for its out_qfd, which is
\* popped; tokens.push_back, http_q_pending.push_back.
TcpForwarded(w) ==
    /\ ~crashed
    /\ w \in TcpWorkers
    /\ pc[w] = "forward_wait"
    /\ \E worker \in WorkerAt(http_workers, wait_out[w].worker_idx, started) :
         IF worker = NoWorker
         THEN /\ crashed' = TRUE
              /\ UNCHANGED <<tokens, http_q_pending, pc, wait_out>>
         ELSE LET h == ForwardTokens([rq |-> reqs[wait_out[w].id],
                                      toks |-> tokens[w],
                                      pend |-> http_q_pending[w]],
                                     worker.out_qfd)
              IN  /\ tokens' = [tokens EXCEPT ![w] = h.toks]
                  /\ http_q_pending' = [http_q_pending EXCEPT ![w] = h.pend]
                  /\ pc' = [pc EXCEPT ![w] = "loop"]
                  /\ wait_out' = [wait_out EXCEPT ![w] = NoWait]
                  /\ UNCHANGED crashed
    /\ UNCHANGED <<cfg, supervisor, http_workers, http_pc, num_rcvd, closed,
                   nconn, nerr, mq, reqs>>

\* Joined mode, the dmtr_wait on the push of the bad-request response
\* returns: clean_state, continue.
TcpErrorSent(w) ==
    /\ ~crashed
    /\ w \in TcpWorkers
    /\ pc[w] = "error_wait"
    /\ LET h == JoinedErrorSent([rq |-> reqs[wait_out[w].id],
                                 toks |-> tokens[w],
                                 pend |-> http_q_pending[w]])
       IN  reqs' = [reqs EXCEPT ![wait_out[w].id] = h.rq]
    /\ pc' = [pc EXCEPT ![w] = "loop"]
    /\ wait_out' = [wait_out EXCEPT ![w] = NoWait]
    /\ UNCHANGED <<cfg, supervisor, http_workers, http_pc, crashed, tokens,
                   http_q_pending, num_rcvd, closed, nconn, nerr, mq>>

\* Joined mode, the dmtr_wait on the push of the response returns: free
\* the response, pop the client, tokens.push_back.
TcpJoinedSent(w) ==
    /\ ~crashed
    /\ w \in TcpWorkers
    /\ pc[w] = "joined_wait"
    /\ LET h == JoinedSent([rq |-> reqs[wait_out[w].id],
                            toks |-> tokens[w],
                            pend |-> http_q_pending[w]])
       IN  /\ reqs' = [reqs EXCEPT ![wait_out[w].id] = h.rq]
           /\ tokens' = [tokens EXCEPT ![w] = h.toks]
    /\ pc' = [pc EXCEPT ![w] = "loop"]
    /\ wait_out' = [wait_out EXCEPT ![w] = NoWait]
    /\ UNCHANGED <<cfg, supervisor, http_workers, http_pc, crashed,
                   http_q_pending, num_rcvd, closed, nconn, nerr, mq>>

\* ReplyWork with the queue left in http_q_pending.
ReplyWorkKeepPending(h, pos, sga) ==
    PushToClient(h, sga.seg1len, sga.numsegs)

\* "This comes from an HTTP worker and we need to forward to the client",
\* up to the dmtr_wait: recover the client from segment 1, forget the
\* queue, push the sga as it is.
ReplyWork(h, pos, sga) ==
    LET client_qfd == sga.seg1len IN
    PushToClient([h EXCEPT !.pend = Erase(@, pos)], client_qfd, sga.numsegs)

\* ReplySent with the response freed before the push is waited for.
ReplySentFreeFirst(h) ==
    PopClient(WaitPush(FreeResponse(h)), h.rq.pushedTo)

\* The reply path from the dmtr_wait: the push is over, free segment 0,
\* pop the client again (client_qfd is the descriptor pushed to).
ReplySent(h) == PopClient(FreeResponse(WaitPush(h)), h.rq.pushedTo)

\* A pop completes with status 0 on a descriptor found in http_q_pending.
\* The iteration up to the dmtr_wait on the push to the client.
TcpReply(w, idx) ==
    /\ ~crashed
    /\ w \in TcpWorkers
    /\ pc[w] = "loop"
    /\ idx \in 1..Len(tokens[w])
    /\ tokens[w][idx].op = "pop"
    /\ Find(http_q_pending[w], tokens[w][idx].qd) # 0
    /\ tokens[w][idx].qd \in MemQds
    /\ mq[tokens[w][idx].qd] # << >>
    /\ LET qr_qd == tokens[w][idx].qd
           sga == Head(mq[qr_qd])
           h0 == EraseToken([rq |-> [reqs[sga.id] EXCEPT !.replyBy = w],
                             toks |-> tokens[w],
                             pend |-> http_q_pending[w]], idx)
           h == ReplyWork(h0, Find(http_q_pending[w], qr_qd), sga)
       IN  /\ mq' = [mq EXCEPT ![qr_qd] = Tail(@)]
           /\ reqs' = [reqs EXCEPT ![sga.id] = h.rq]
           /\ tokens' = [tokens EXCEPT ![w] = h.toks]
           /\ http_q_pending' = [http_q_pending EXCEPT ![w] = h.pend]
           /\ wait_out' = [wait_out EXCEPT
                             ![w] = [id |-> sga.id, worker_idx |-> -1]]
    /\ pc' = [pc EXCEPT ![w] = "reply_wait"]
    /\ UNCHANGED <<cfg, supervisor, http_workers, http_pc, crashed, num_rcvd,
                   closed, nconn, nerr>>

\* The dmtr_wait on the push of an HTTP worker's response to the client
\* returns: free segment 0, pop the client, tokens.push_back.
TcpReplySent(w) ==
    /\ ~crashed
    /\ w \in TcpWorkers
    /\ pc[w] = "reply_wait"
    /\ LET h == ReplySent([rq |-> reqs[wait_out[w].id],
                           toks |-> tokens[w],
                           pend |-> http_q_pending[w]])
       IN  /\ reqs' = [reqs EXCEPT ![wait_out[w].id] = h.rq]
           /\ tokens' = [tokens EXCEPT ![w] = h.toks]
    /\ pc' = [pc EXCEPT ![w] = "loop"]
    /\ wait_out' = [wait_out EXCEPT ![w] = NoWait]
    /\ UNCHANGED <<cfg, supervisor, http_workers, http_pc, crashed,
                   http_q_pending, num_rcvd, closed, nconn, nerr, mq>>

\* The error branch with the completed token left in the vector.
ErrorTokensKept(toks, idx) == toks

\* The error branch erasing the first token instead of the completed one.
ErrorTokensFront(toks, idx) == Erase(toks, 1)

\* tokens.erase(tokens.begin() + idx): the completed token goes, every
\* other token stays where it was
ErrorTokens(toks, idx) == Erase(toks, idx)

\* wait_any returns ECONNRESET or ECONNABORTED for the token at idx:
\* dmtr_close(wait_out.qr_qd); tokens.erase(tokens.begin() + idx).
\* Only operations on sockets (the accept, a client's pop) end this way.
TcpError(w, idx) ==
    /\ ~crashed
    /\ w \in TcpWorkers
    /\ pc[w] = "loop"
    /\ idx \in 1..Len(tokens[w])
    /\ tokens[w][idx].op \in {"accept", "pop"}
    /\ tokens[w][idx].qd \notin MemQds
    /\ Events < MaxEvents
    /\ nerr' = nerr + 1
    /\ closed' = closed \cup { tokens[w][idx].qd }
    /\ tokens' = [tokens EXCEPT ![w] = ErrorTokens(@, idx)]
    /\ UNCHANGED <<cfg, supervisor, http_workers, pc, wait_out, http_pc,
                   crashed, http_q_pending, num_rcvd, nconn, mq, reqs>>

\* wait_any returns any other non-zero status: the assert of the error
\* branch fails and aborts the process before anything is closed or erased.
\* The status is an event of the environment like the others.
TcpFatal(w, idx) ==
    /\ ~crashed
    /\ w \in TcpWorkers
    /\ pc[w] = "loop"
    /\ idx \in 1..Len(tokens[w])
    /\ Events < MaxEvents
    /\ crashed' = TRUE
    /\ UNCHANGED <<cfg, supervisor, http_workers, pc, wait_out, http_pc,
                   tokens, http_q_pending, num_rcvd, closed, nconn, nerr,
                   mq, reqs>>

(* --------------------------- HTTP worker ------------------------------ *)
\* The response sga of the REQ_ERROR case: two segments, the second one
\* carrying the request's segment[1].length
ErrorReply(sga) ==
    [numsegs |-> 2, id |-> sga.id, seg0 |-> "BAD_REQUEST_HEADER",
     seg1len |-> sga.seg1len]

\* The response sga of a complete request: sga_numsegs = 1, and
\* sga_segs[1].sgaseg_len set all the same
CompleteReply(sga, response) ==
    [numsegs |-> 1, id |-> sga.id, seg0 |-> response,
     seg1len |-> sga.seg1len]

\* What one iteration of http_work does with the sga it popped, up to the
\* dmtr_wait on its push: the updated request and the sgas pushed to the
\* output queue.
HttpResult(rq, sga, out_qfd) ==
    LET pstatus == parse_http(sga.seg0)
        p == [rq EXCEPT !.parsed = pstatus]
        response == BuildResponse(sga.seg0)
        sent(q, reply) ==
            [q EXCEPT !.resp = QueuePush(Malloc),
                      !.body = reply.seg0,
                      !.replies = @ + 1,
                      !.replyQ = out_qfd,
                      !.replyEnv = reply.seg1len,
                      !.replySegs = reply.numsegs]
    IN  CASE pstatus = "REQ_ERROR" ->
               [rq |-> sent([p EXCEPT !.reqFrees = @ + 1], ErrorReply(sga)),
                out |-> << ErrorReply(sga) >>]
          [] pstatus = "REQ_INCOMPLETE" ->
               [rq |-> p, out |-> << >>]
          [] OTHER ->
               IF response = "NULL"
               THEN [rq |-> p, out |-> << >>]
               ELSE [rq |-> sent([p EXCEPT !.reqFrees = @ + 1],
                                 CompleteReply(sga, response)),
                     out |-> << CompleteReply(sga, response) >>]

\* One iteration of http_work's loop up to the dmtr_wait on its push: pop
\* the input queue, wait, work, push to the output queue; or up to the
\* next pop when the iteration ends in a continue.
HttpWork(k) ==
    /\ ~crashed
    /\ k \in started
    /\ http_pc[k] = 0
    /\ mq[Worker(k).in_qfd] # << >>
    /\ LET me == Worker(k)
           sga == Head(mq[me.in_qfd])
           res == HttpResult(reqs[sga.id], sga, me.out_qfd)
       IN  IF sga.numsegs # 2
           THEN /\ crashed' = TRUE
                /\ UNCHANGED <<mq, reqs, http_pc>>
           ELSE /\ mq' = [mq EXCEPT ![me.in_qfd] = Tail(@),
                                    ![me.out_qfd] = @ \o res.out]
                /\ reqs' = [reqs EXCEPT ![sga.id] = res.rq]
                /\ http_pc' = [http_pc EXCEPT
                                 ![k] = IF res.out = << >> THEN 0
                                        ELSE sga.id]
                /\ UNCHANGED crashed
    /\ UNCHANGED <<cfg, supervisor, http_workers, pc, wait_out, tokens,
                   http_q_pending, num_rcvd, closed, nconn, nerr>>

\* The dmtr_wait on the push to the output queue returns: clean_state and
\* the next iteration's pop.
HttpSent(k) ==
    /\ ~crashed
    /\ k \in started
    /\ http_pc[k] # 0
    /\ reqs' = [reqs EXCEPT ![http_pc[k]].resp = QueueWait(@)]
    /\ http_pc' = [http_pc EXCEPT ![k] = 0]
    /\ UNCHANGED <<cfg, supervisor, http_workers, pc, wait_out, crashed,
                   tokens, http_q_pending, num_rcvd, closed, nconn, nerr, mq>>

\* no token vector grows past one accept and one pop per connection
MaxTokens == MaxEvents + 1

Next ==
    \/ \E w \in TcpIds : TcpSetup(w)
    \/ \E w \in TcpIds : TcpListen(w)
    \/ \E w \in TcpIds, idx \in 1..MaxTokens : TcpAccept(w, idx)
    \/ \E w \in TcpIds, idx \in 1..MaxTokens, kind \in Kinds :
         TcpRequest(w, idx, kind)
    \/ \E w \in TcpIds : TcpForwarded(w)
    \/ \E w \in TcpIds : TcpErrorSent(w)
    \/ \E w \in TcpIds : TcpJoinedSent(w)
    \/ \E w \in TcpIds, idx \in 1..MaxTokens : TcpReply(w, idx)
    \/ \E w \in TcpIds : TcpReplySent(w)
    \/ \E w \in TcpIds, idx \in 1..MaxTokens : TcpError(w, idx)
    \/ \E w \in TcpIds, idx \in 1..MaxTokens : TcpFatal(w, idx)
    \/ \E k \in HttpIds : HttpWork(k)
    \/ \E k \in HttpIds : HttpSent(k)

Spec == Init /\ [][Next]_vars

\* tcp_work under each of the three filters.
SpecFilters == InitFilters /\ [][Next]_vars

\* The same program on a datapath that may refuse a submission.
NextSubmit ==
    \/ Next
    \/ \E w \in TcpIds, idx \in 1..MaxTokens : TcpAcceptPopFails(w, idx)

SpecSubmit == Init /\ [][NextSubmit]_vars

(* ---------------------------- supervisor ------------------------------ *)
\* The work_setup calls the command line can cause: any number of TCP and
\* of HTTP workers from 0, the filter work_setup assigns.
SetupConfigs ==
    [split : BOOLEAN, filter : {"ONE_TO_ONE"},
     nTcp : 0..MaxTcp, nHttp : 0..MaxHttp]

\* main has called work_setup: no thread, no queue, no handler yet.
SetupInit ==
    /\ cfg \in SetupConfigs
    /\ sup = [pc |-> "tcp_loop", i |-> 0, exit |-> -1]
    /\ started = {}
    /\ registry = NoRegistry
    /\ http_workers = << >>
    /\ pc = [w \in TcpIds |-> "unborn"]
    /\ wait_out = [w \in TcpIds |-> NoWait]
    /\ http_pc = [k \in HttpIds |-> 0]
    /\ crashed = FALSE
    /\ tokens = [w \in TcpIds |-> << >>]
    /\ http_q_pending = [w \in TcpIds |-> << >>]
    /\ num_rcvd = [w \in TcpIds |-> 0]
    /\ closed = {}
    /\ nconn = 0
    /\ nerr = 0
    /\ mq = [q \in MemQds |-> << >>]
    /\ reqs = << >>

\* One iteration of "Create TCP worker threads": the validation, which
\* exits with status 1, or pthread_create of tcp_work for worker i.
SetupTcpWorker ==
    /\ ~crashed
    /\ sup.pc = "tcp_loop"
    /\ sup.i < cfg.nTcp
    /\ IF Rejected(cfg.filter, cfg.nTcp, cfg.nHttp)
       THEN /\ sup' = [sup EXCEPT !.pc = "exited", !.exit = 1]
            /\ crashed' = TRUE
            /\ UNCHANGED pc
       ELSE /\ sup' = [sup EXCEPT !.i = @ + 1]
            /\ pc' = [pc EXCEPT ![sup.i] = "setup"]
            /\ UNCHANGED crashed
    /\ UNCHANGED <<cfg, started, registry, http_workers, wait_out, http_pc,
                   tokens, http_q_pending, num_rcvd, closed, nconn, nerr, mq,
                   reqs>>

\* The TCP loop is over: "if (!split) return 1", and main installs the
\* handlers and joins; in split mode the HTTP loop is next.
SetupTcpDone ==
    /\ ~crashed
    /\ sup.pc = "tcp_loop"
    /\ sup.i = cfg.nTcp
    /\ sup' = [sup EXCEPT !.pc = IF cfg.split THEN "http_loop" ELSE "joining",
                          !.i = 0]
    /\ UNCHANGED <<cfg, started, registry, http_workers, pc, wait_out, http_pc,
                   crashed, tokens, http_q_pending, num_rcvd, closed, nconn,
                   nerr, mq, reqs>>

\* One iteration of "Create http worker threads": new Worker, its two
\* queues, http_workers.push_back, pthread_create of http_work.
SetupHttpWorker ==
    /\ ~crashed
    /\ sup.pc = "http_loop"
    /\ sup.i < cfg.nHttp
    /\ http_workers' = Append(http_workers, Worker(sup.i))
    /\ started' = started \cup { sup.i }
    /\ sup' = [sup EXCEPT !.i = @ + 1]
    /\ UNCHANGED <<cfg, registry, pc, wait_out, http_pc, crashed, tokens,
                   http_q_pending, num_rcvd, closed, nconn, nerr, mq, reqs>>

\* The HTTP loop is over: return 1, and main installs the handlers and
\* joins.
SetupHttpDone ==
    /\ ~crashed
    /\ sup.pc = "http_loop"
    /\ sup.i = cfg.nHttp
    /\ sup' = [sup EXCEPT !.pc = "joining", !.i = 0]
    /\ UNCHANGED <<cfg, started, registry, http_workers, pc, wait_out, http_pc,
                   crashed, tokens, http_q_pending, num_rcvd, closed, nconn,
                   nerr, mq, reqs>>

\* main: there is no thread to join, return 0.
MainReturn ==
    /\ ~crashed
    /\ sup.pc = "joining"
    /\ worker_threads = {}
    /\ sup' = [sup EXCEPT !.pc = "exited", !.exit = 0]
    /\ crashed' = TRUE
    /\ UNCHANGED <<cfg, started, registry, http_workers, pc, wait_out, http_pc,
                   tokens, http_q_pending, num_rcvd, closed, nconn, nerr, mq,
                   reqs>>

\* SIGINT or SIGTERM once the handlers are installed: sig_handler begins
\* with http_workers.clear(), the worker threads still running.
SigHandlerClear ==
    /\ ~crashed
    /\ sup.pc = "joining"
    /\ sup' = [sup EXCEPT !.pc = "sig_handler"]
    /\ http_workers' = << >>
    /\ UNCHANGED <<cfg, started, registry, pc, wait_out, http_pc, crashed, tokens,
                   http_q_pending, num_rcvd, closed, nconn, nerr, mq, reqs>>

\* The rest of sig_handler.  pthread_kill(*w, SIGKILL) on the first worker
\* thread kills the process: SIGKILL cannot be aimed at one thread.  Only
\* with no worker thread does the handler go on to read lqds, without
\* lqds_mutex, close every descriptor in it and exit(0).
SigHandlerKill ==
    /\ ~crashed
    /\ sup.pc = "sig_handler"
    /\ crashed' = TRUE
    /\ IF worker_threads # {}
       THEN /\ sup' = [sup EXCEPT !.pc = "killed"]
            /\ UNCHANGED <<registry, closed>>
       ELSE /\ sup' = [sup EXCEPT !.pc = "exited", !.exit = 0]
            /\ registry' = ReadAll(registry, "main")
            /\ closed' = closed \cup Range(registry.lqds)
    /\ UNCHANGED <<cfg, started, http_workers, pc, wait_out, http_pc, tokens,
                   http_q_pending, num_rcvd, nconn, nerr, mq, reqs>>

NextSupervisor ==
    \/ Next
    \/ SetupTcpWorker
    \/ SetupTcpDone
    \/ SetupHttpWorker
    \/ SetupHttpDone
    \/ MainReturn
    \/ SigHandlerClear
    \/ SigHandlerKill

SpecSupervisor == SetupInit /\ [][NextSupervisor]_vars

(* ============================ properties ============================== *)
ReqIds == 1..Len(reqs)

\* occurrences of x in the vector s
Count(s, x) == Cardinality({ i \in 1..Len(s) : s[i] = x })

\* pops outstanding on descriptor qd, over all workers' token vectors
PopsOn(qd) ==
    Cardinality({ <<w, i>> \in TcpIds \X (1..MaxTokens) :
                    i <= Len(tokens[w]) /\ tokens[w][i] = PopTok(qd) })

\* the response to request r has been pushed to a client
Pushed(r) == reqs[r].pushedSegs # 0

\* request r is in the compute stage: forwarded, and its fate not yet
\* known to the TCP workers
InCompute(r) ==
    /\ reqs[r].fwdQ # 0
    /\ \/ reqs[r].parsed = "none"
       \/ reqs[r].replies > 0 /\ ~Pushed(r)

\* a TCP worker is in the iteration that handles request r: between the
\* wait_any that handed it the completion and its next wait_any
Working(r) == \E w \in TcpIds : wait_out[w].id = r

\* a TCP worker is in an iteration on a request of client c
InIteration(c) ==
    \E w \in TcpIds : wait_out[w].id # 0 /\ reqs[wait_out[w].id].qd = c

\* C1: in split mode every response pushed to a client descriptor was
\* computed from a request popped from that same descriptor.
C1_ResponseReturnsToOrigin ==
    cfg.split =>
      \A r \in ReqIds : Pushed(r) => reqs[r].pushedTo = reqs[r].qd

\* C1 witness: two connections, and the reply to the later request has
\* been pushed to its client while the earlier, complete, request is still
\* in the compute stage.
C1_Witness ==
    /\ cfg.split
    /\ \E r1, r2 \in ReqIds :
         /\ r1 < r2
         /\ reqs[r1].qd # reqs[r2].qd
         /\ parse_http(reqs[r1].kind) = "REQ_COMPLETE"
         /\ InCompute(r1)
         /\ Pushed(r2)
         /\ reqs[r2].pushedTo = reqs[r2].qd

\* C2: at most one pop is outstanding on a client; a pop on it is
\* submitted only after the response to its previous request has been
\* pushed and waited for; and while a request of it is in the compute
\* stage no pop is outstanding on it.
C2_ReadsSerialized ==
    /\ \A n \in 1..MaxEvents : PopsOn(ClientQd(n)) <= 1
    /\ \A r \in ReqIds :
         /\ reqs[r].rearm # "early"
         /\ PopsOn(reqs[r].qd) > 0 =>
              Pushed(r) /\ ~reqs[r].resp.inflight /\ reqs[r].rearm = "ok"
         /\ (reqs[r].fwdQ # 0 /\ ~Pushed(r)) => PopsOn(reqs[r].qd) = 0

\* C2 witness: split mode, a connection re-armed after its first response
\* whose second request is now in the compute stage.
C2_Witness ==
    /\ cfg.split
    /\ \E r1, r2 \in ReqIds :
         /\ r1 < r2
         /\ reqs[r1].qd = reqs[r2].qd
         /\ reqs[r1].rearm = "ok"
         /\ InCompute(r2)
         /\ PopsOn(reqs[r2].qd) = 0

\* C3 (as claimed): at every wait_any the token set of a connection worker
\* holds exactly one accept token for its listening descriptor.
C3_OneAcceptPending ==
    \A w \in TcpWorkers :
      pc[w] = "loop" => Count(tokens[w], AcceptTok(Lqd(w))) = 1

\* responses pushed to descriptor qd
ResponsesTo(qd) ==
    Cardinality({ r \in ReqIds : Pushed(r) /\ reqs[r].pushedTo = qd })

\* requests popped from qd that parsed with the given verdict
ParsedFrom(qd, verdict) ==
    Cardinality({ r \in ReqIds :
                    reqs[r].qd = qd /\ reqs[r].parsed = verdict })

\* C4: for every connection with no request in the compute stage or in a
\* worker's hands (a closed one in particular), the responses pushed to it
\* are as many as the complete plus the malformed requests parsed from it,
\* in joined and in split mode.
C4_ResponsesMatchRequests ==
    \A n \in 1..MaxEvents :
      LET c == ClientQd(n) IN
      (\A r \in ReqIds : reqs[r].qd = c => ~InCompute(r) /\ ~Working(r)) =>
        ResponsesTo(c) =
          ParsedFrom(c, "REQ_COMPLETE") + ParsedFrom(c, "REQ_ERROR")

\* C4 witness: a connection that was answered and then closed.
C4_Witness ==
    \E n \in 1..MaxEvents :
      /\ ClientQd(n) \in closed
      /\ ResponsesTo(ClientQd(n)) >= 1
      /\ ResponsesTo(ClientQd(n)) =
           ParsedFrom(ClientQd(n), "REQ_COMPLETE")
             + ParsedFrom(ClientQd(n), "REQ_ERROR")

\* the output queue of the HTTP worker whose input queue is in_qfd
OutOf(in_qfd) == in_qfd + 1

\* copies of request r's sga waiting in queue qd
InQueue(qd, r) ==
    Cardinality({ i \in 1..Len(mq[qd]) : mq[qd][i].id = r })

\* request r was answered once, on the output queue of the worker it was
\* given to, with the envelope it was given
AnsweredOnce(r) ==
    /\ reqs[r].replies = 1
    /\ reqs[r].replyQ = OutOf(reqs[r].fwdQ)
    /\ reqs[r].replyEnv = reqs[r].fwdEnv

\* C5 (as claimed): every request enqueued onto a compute worker's input,
\* whatever its parse outcome, is answered exactly once on that worker's
\* output with segment[1].length unchanged.
C5_EveryRequestAnswered ==
    \A r \in ReqIds :
      (reqs[r].fwdQ # 0 /\ reqs[r].parsed # "none") => AnsweredOnce(r)

\* C6 (as claimed): in joined mode, after a malformed request of client c
\* the bad-request response has been pushed and c has a pop outstanding
\* once the worker is back at wait_any (until that pop completes: with a
\* later request, or with an error that closes c).
C6_MalformedRearms ==
    ~cfg.split =>
      \A r \in ReqIds :
        reqs[r].parsed = "REQ_ERROR" =>
          /\ Pushed(r)
          /\ reqs[r].body = "BAD_REQUEST_HEADER"
          /\ \/ Working(r)
             \/ PopsOn(reqs[r].qd) = 1
             \/ reqs[r].qd \in closed
             \/ \E r2 \in ReqIds : r2 > r /\ reqs[r2].qd = reqs[r].qd

\* C7 (as claimed): the sga pushed to a client has one segment, the
\* response payload; for a malformed request that payload is the fixed
\* bad-request header.
C7_OnlyPayloadPushed ==
    \A r \in ReqIds :
      Pushed(r) =>
        /\ reqs[r].pushedSegs = 1
        /\ reqs[r].parsed = "REQ_ERROR" =>
             reqs[r].body = "BAD_REQUEST_HEADER"

\* C8 (as claimed): every request buffer is freed exactly once, on every
\* path: once the request has been worked on, its buffer has been freed
\* once.
C8_RequestFreedOnce ==
    \A r \in ReqIds :
      /\ reqs[r].reqFrees <= 1
      /\ reqs[r].parsed # "none" => reqs[r].reqFrees = 1

\* C9: no response buffer is freed before the push that sends it to the
\* client has been waited for.
C9_NoFreeBeforePushDone ==
    \A r \in ReqIds :
      /\ ~reqs[r].resp.early
      /\ reqs[r].resp.frees > 0 => Pushed(r) /\ ~reqs[r].resp.inflight

\* C9 witness: split mode, a response popped from a compute worker was
\* pushed to the client, waited for and freed.
C9_Witness ==
    /\ cfg.split
    /\ \E r \in ReqIds :
         Pushed(r) /\ reqs[r].resp.frees = 1 /\ reqs[r].resp.pushes = 2

\* C10 (as claimed): every response buffer is freed after the push that
\* consumed it has completed: at every wait of the connection worker, a
\* response that was pushed to its client has been freed.
C10_ResponseFreed ==
    \A r \in ReqIds :
      (Pushed(r) /\ ~Working(r)) =>
        reqs[r].resp.frees = 1 /\ ~reqs[r].resp.early

\* C11 (as claimed): under ONE_TO_ONE in split mode, in every configuration
\* the validation lets through, every request connection worker i forwards
\* is pushed to the input queue of compute worker i, which exists, and is
\* answered on compute worker i's output queue.
C11_OneToOnePairs ==
    (cfg.split /\ cfg.filter = "ONE_TO_ONE") =>
      \A r \in ReqIds :
        reqs[r].fwdQ # 0 =>
          /\ reqs[r].widx = reqs[r].tcp
          /\ reqs[r].widx < cfg.nHttp
          /\ reqs[r].fwdQ = In_qfd(reqs[r].tcp)
          /\ reqs[r].replies > 0 => reqs[r].replyQ = Out_qfd(reqs[r].tcp)

\* work_setup has let the configuration through: a worker thread has been
\* created, or the TCP loop is over without an exit(1).
Accepted ==
    \/ worker_threads # {}
    \/ sup.pc \notin {"tcp_loop", "exited"}
    \/ sup.exit = 0

\* C12 (as claimed): under ONE_TO_ONE a configuration is accepted only
\* when there are at least as many compute workers as connection workers;
\* one with fewer compute than connection workers is rejected.
C12_AcceptedOnlyWithEnoughCompute ==
    (cfg.filter = "ONE_TO_ONE" /\ Accepted) => cfg.nHttp >= cfg.nTcp

\* the supervisor has not gone past the validation, has created no thread,
\* and if the process has exited its status is 1
RejectedBeforeSpawn ==
    /\ worker_threads = {}
    /\ sup.pc \in {"tcp_loop", "exited"}
    /\ sup.pc = "exited" => sup.exit = 1

\* C13 (as claimed): under ONE_TO_ONE a configuration with fewer
\* connection workers than compute workers is rejected with a non-zero
\* exit before any worker thread is created.
C13_FewerTcpRejected ==
    (cfg.filter = "ONE_TO_ONE" /\ cfg.nTcp < cfg.nHttp) =>
      RejectedBeforeSpawn

\* C13 (amended): the same for a configuration with at least one
\* connection worker; with none the validation is never reached.
C13_FewerTcpRejectedAtFirstWorker ==
    (cfg.filter = "ONE_TO_ONE" /\ cfg.nTcp >= 1 /\ cfg.nTcp < cfg.nHttp) =>
      RejectedBeforeSpawn

\* C13 witness: one connection worker asked for with two compute workers,
\* and the process has exited with status 1 without a thread.
C13_Witness ==
    /\ cfg.nTcp = 1 /\ cfg.nHttp = 2
    /\ sup.pc = "exited" /\ sup.exit = 1
    /\ worker_threads = {}
    /\ \A w \in TcpIds : tokens[w] = << >>

\* the requests TCP worker w popped before request r, and r itself
RankOf(r) ==
    Cardinality({ q \in ReqIds : q <= r /\ reqs[q].tcp = reqs[r].tcp })

\* C14: under RR in split mode with N compute workers, the k-th request
\* (counted from 1) a connection worker pops from any of its clients is
\* forwarded to compute worker k mod N.
C14_RoundRobin ==
    (cfg.split /\ cfg.filter = "RR") =>
      \A r \in ReqIds :
        reqs[r].fwdQ # 0 =>
          /\ reqs[r].widx = RankOf(r) % cfg.nHttp
          /\ reqs[r].fwdQ = In_qfd(RankOf(r) % cfg.nHttp)

\* C14 witness: two compute workers, and one connection worker has
\* forwarded its first request to worker 1 and its second, from another
\* connection, to worker 0.
C14_Witness ==
    /\ cfg.split /\ cfg.filter = "RR" /\ cfg.nHttp = 2
    /\ \E r1, r2 \in ReqIds :
         /\ reqs[r1].tcp = reqs[r2].tcp
         /\ reqs[r1].qd # reqs[r2].qd
         /\ RankOf(r1) = 1 /\ reqs[r1].fwdQ = In_qfd(1)
         /\ RankOf(r2) = 2 /\ reqs[r2].fwdQ = In_qfd(0)

\* C15: an ECONNRESET or ECONNABORTED completion makes the worker close the
\* completed descriptor and remove exactly the completed token; every
\* other token, of this and of every other worker, and the pending replies
\* stay as they were, and the worker goes on.  After any other non-zero
\* status nothing moves any more.
C15_ErrorCompletion ==
    [][ /\ ~crashed
        /\ nerr' = nerr + 1 =>
             \E w \in TcpWorkers, idx \in 1..MaxTokens :
               /\ idx <= Len(tokens[w])
               /\ closed' = closed \cup { tokens[w][idx].qd }
               /\ tokens' = [tokens EXCEPT ![w] = Erase(@, idx)]
               /\ http_q_pending' = http_q_pending
               /\ pc' = pc
               /\ ~crashed' ]_vars

\* C15 witness: split mode, a client was closed by an error completion
\* and the worker still holds its accept token and a pending reply of
\* another client.
C15_Witness ==
    /\ cfg.split /\ ~crashed /\ nerr >= 1
    /\ \E w \in TcpWorkers, n \in 1..MaxEvents :
         /\ ClientQd(n) \in closed
         /\ Count(tokens[w], AcceptTok(Lqd(w))) = 1
         /\ Len(http_q_pending[w]) = 1
         /\ PopsOn(http_q_pending[w][1]) = 1
         /\ Len(tokens[w]) = 2

\* C16 (as claimed): a failed submission is fatal: the worker does not go
\* on and its token set never holds a token that no submission produced.
C16_FailedSubmissionFatal ==
    \A w \in TcpWorkers :
      \A i \in 1..Len(tokens[w]) : tokens[w][i].op \in {"accept", "pop"}

\* C17 (as claimed): in split mode the handle table is complete before any
\* connection worker runs, and is not modified afterwards: whenever a
\* connection worker is in its loop, the table holds every compute
\* worker's handle.
C17_TableCompleteAndFrozen ==
    (cfg.split /\ ~crashed) =>
      \A w \in TcpWorkers :
        pc[w] = "loop" =>
          http_workers = [i \in 1..cfg.nHttp |-> Worker(i - 1)]

\* C18 (as claimed): every access to lqds is made holding lqds_mutex, each
\* connection worker appends its listening descriptor exactly once, and
\* the handler's read of lqds does not happen amid the workers' appends.
C18_RegistryUnderMutex ==
    /\ \A a \in registry.log : a.locked
    /\ \A w \in TcpWorkers :
         Count(registry.lqds, Lqd(w)) =
           IF pc[w] \in {"unborn", "setup"} THEN 0 ELSE 1

\* C19 (as claimed): every response sga a compute worker pushes to its
\* output queue, for a complete and for a malformed request alike, has
\* sga_numsegs = 2 and carries in segment[1].length the client descriptor
\* the request came from.
C19_ReplyHasTwoSegments ==
    \A r \in ReqIds :
      reqs[r].replies > 0 =>
        /\ reqs[r].replySegs = 2
        /\ reqs[r].replyEnv = reqs[r].qd

\* C20 (as claimed): the reply to a forwarded request is popped by the
\* connection worker that pushed the request, and a compute worker pushes
\* every reply to its own output queue.
C20_PointToPoint ==
    \A r \in ReqIds :
      /\ reqs[r].replyBy # -1 => reqs[r].replyBy = reqs[r].tcp
      /\ reqs[r].replies > 0 => reqs[r].replyQ = OutOf(reqs[r].fwdQ)

\* the connections accepted so far
Accepted_qds == { ClientQd(n) : n \in 1..nconn }

\* requests of client c that are in the compute stage
InFlight(c) ==
    Cardinality({ r \in ReqIds : reqs[r].qd = c /\ InCompute(r) })

\* C21 (as claimed): at every wait_any, every accepted connection that has
\* not been closed has exactly one pop token in the token sets, or, in
\* split mode, exactly one request in the compute stage whose reply will
\* re-arm it; after complete, malformed and incomplete requests alike.
C21_NoOrphanedConnection ==
    ~crashed =>
      \A c \in Accepted_qds \ closed :
        \/ InIteration(c)
        \/ PopsOn(c) = 1 /\ InFlight(c) = 0
        \/ cfg.split /\ PopsOn(c) = 0 /\ InFlight(c) = 1

\* the pop tokens of TCP worker w that are on descriptor qd
PopsOf(w, qd) == Count(tokens[w], PopTok(qd))

\* C22: at every wait_any of a connection worker, http_q_pending holds
\* every descriptor as many times as the token vector holds a pop token on
\* it if the descriptor is a compute output queue, and not at all
\* otherwise: a client descriptor is never in it, and a pop completion is
\* taken for a compute reply exactly when it is on an output queue.
C22_PendingMatchesTokens ==
    \A w \in TcpIds :
      /\ \A k \in HttpIds :
           Count(http_q_pending[w], Out_qfd(k)) = PopsOf(w, Out_qfd(k))
      /\ \A i \in 1..Len(http_q_pending[w]) :
           http_q_pending[w][i] \in { Out_qfd(k) : k \in HttpIds }
      /\ \A i \in 1..Len(tokens[w]) :
           tokens[w][i].op = "pop" =>
             (Find(http_q_pending[w], tokens[w][i].qd) # 0
                <=> tokens[w][i].qd \in { Out_qfd(k) : k \in HttpIds })

\* C22 witness: a connection worker waits for two replies on the same
\* output queue: the queue is twice in http_q_pending and two pop tokens
\* are on it.
C22_Witness ==
    \E w \in TcpWorkers :
      /\ Len(http_q_pending[w]) = 2
      /\ http_q_pending[w][1] = http_q_pending[w][2]
      /\ PopsOf(w, http_q_pending[w][1]) = 2

\* nothing refers to client descriptor c: no token, no request in the
\* compute stage, no envelope in a queue
Unreferenced(c) ==
    /\ \A w \in TcpIds : \A i \in 1..Len(tokens[w]) : tokens[w][i].qd # c
    /\ InFlight(c) = 0
    /\ \A q \in MemQds : \A i \in 1..Len(mq[q]) : mq[q][i].seg1len # c

\* C23: no push and no pop is submitted on a client descriptor that has
\* been closed; a client descriptor is closed only by the error completion
\* of its own pop token, so never while a request of it is in the compute
\* stage; and once it is closed no token and no envelope refers to it.
C23_NoUseAfterClose ==
    [][ \A c \in ClientQds :
          /\ (c \in closed /\ ~crashed) =>
               /\ ResponsesTo(c)' = ResponsesTo(c)
               /\ PopsOn(c)' = PopsOn(c)
          /\ (c \in closed' /\ c \notin closed) =>
               /\ PopsOn(c) = 1
               /\ PopsOn(c)' = 0
               /\ InFlight(c) = 0
          /\ c \in closed' => Unreferenced(c)' ]_vars

\* C23 witness: split mode, a client that was answered through the
\* compute stage, re-armed and then closed; nothing refers to it.
C23_Witness ==
    /\ cfg.split /\ ~crashed
    /\ \E c \in closed \cap ClientQds :
         /\ ResponsesTo(c) >= 1
         /\ \E r \in ReqIds : reqs[r].qd = c /\ reqs[r].rearm = "ok"
         /\ Unreferenced(c)
=============================================================================
